---- MODULE Spec2Model ----
(***************************************************************************)
(* Model of src/prefect/deployments/base.py: the project primitives        *)
(* find_prefect_directory, set_prefect_hidden_dir,                         *)
(* create_default_prefect_yaml, configure_project_by_recipe,               *)
(* initialize_project, register_flow and                                   *)
(* _copy_deployments_into_prefect_file, over an explicit file system.      *)
(***************************************************************************)
EXTENDS Integers, Sequences, FiniteSets, TLC

VARIABLES
    fs,          \* [Dirs -> Kinds]: what the entry ".prefect" of each directory is
    cwd,         \* the current working directory of the calling process(es)
    env,         \* the platform and what the git executable answers in cwd
    proj,        \* the other entries of cwd: .prefectignore, prefect.yaml, Dockerfile, deployment.yaml
    flows_json,  \* [Dirs -> registry or NoFile]: contents of <dir>/.prefect/flows.json
    last,        \* the most recent completed call of a synchronous function and its outcome
    succeeded,   \* arguments of the initialize_project calls that have returned so far
    ncalls,      \* number of initialize_project calls made so far
    pc,          \* register_flow: position of each invocation
    loc          \* register_flow: locals of each invocation

vars == <<fs, cwd, env, proj, flows_json, last, succeeded, ncalls, pc, loc>>

----------------------------------------------------------------------------
(* Bounds *)

MaxDepth == 2      \* deepest directory below the file system root
MaxMarkers == 1    \* most ".prefect" entries present in the initial file system
MaxCalls == 2      \* most initialize_project calls in one behaviour
MaxLines == 2      \* most lines of a deployment.yaml

----------------------------------------------------------------------------
(* Paths. A resolved absolute path is the sequence of its components; the  *)
(* file system root is the empty sequence.                                  *)

\* Python's None where an object is expected, and where a str is expected
None == [none |-> TRUE]
NoStr == "<None>"
\* A file is [exists |-> FALSE] or [exists |-> TRUE, content |-> ...]
NoFile == [exists |-> FALSE]
File(c) == [exists |-> TRUE, content |-> c]
PREFECT == ".prefect"

Names == {"a", "b"}
Root == <<>>
Dirs == UNION {[1..n -> Names] : n \in 0..MaxDepth}
Kinds == {"absent", "dir", "file"}

\* pathlib: Path.parent; the parent of the root is the root
Parent(p) == IF p = Root THEN Root ELSE SubSeq(p, 1, Len(p) - 1)

\* pathlib: Path.joinpath / the "/" operator with one component
joinpath(p, name) == Append(p, name)

\* basename of a resolved path: os.path.basename("/") is the empty string
basename(p) == IF p = Root THEN "" ELSE p[Len(p)]

\* A path argument is None or [abs, segs]; Dot is Path(".")
Dot == [abs |-> FALSE, segs |-> <<>>]
AbsPath(p) == [abs |-> TRUE, segs |-> p]

\* Path(...).resolve() / .absolute(): relative paths are taken from cwd
resolve(c, p) == IF p.abs THEN p.segs ELSE c \o p.segs

\* Path.exists() / Path.is_dir() of <dir>/.prefect; the directories of Dirs exist
IsMarkerPath(f, p) == Len(p) > 0 /\ p[Len(p)] = PREFECT /\ Parent(p) \in DOMAIN f
exists(f, p) == IF IsMarkerPath(f, p) THEN f[Parent(p)] # "absent" ELSE p \in DOMAIN f
is_dir(f, p) == IF IsMarkerPath(f, p) THEN f[Parent(p)] = "dir" ELSE p \in DOMAIN f

\* P itself and every ancestor of P up to the root
Chain(p) == {SubSeq(p, 1, k) : k \in 0..Len(p)}

\* File systems with at most MaxMarkers ".prefect" entries, all inside `where`
LayoutsOn(where) ==
    UNION {{[d \in Dirs |-> IF d \in S THEN k[d] ELSE "absent"] : k \in [S -> {"dir", "file"}]} :
           S \in {T \in SUBSET where : Cardinality(T) <= MaxMarkers}}

----------------------------------------------------------------------------
(* find_prefect_directory *)

\* the while loop: `path` is tested, then replaced by its parent, until path = parent
RECURSIVE find_loop(_, _, _)
find_loop(f, path, parent) ==
    IF path = parent THEN None
    ELSE IF is_dir(f, joinpath(path, PREFECT)) THEN AbsPath(joinpath(path, PREFECT))
    ELSE find_loop(f, parent, Parent(parent))

find_prefect_directory(f, c, path) ==
    LET p == resolve(c, IF path = None THEN Dot ELSE path)
    IN  find_loop(f, p, Parent(p))

----------------------------------------------------------------------------
(* set_prefect_hidden_dir: [created, fs'] *)

set_prefect_hidden_dir(f, c, path) ==
    LET p == joinpath(resolve(c, IF path = None THEN Dot ELSE path), PREFECT)
    IN  IF exists(f, p)
        THEN [created |-> FALSE, fs |-> f]
        ELSE [created |-> TRUE, fs |-> [f EXCEPT ![Parent(p)] = "dir"]]

----------------------------------------------------------------------------
(* YAML. A value is null, a string, a list or a mapping (keys in insertion *)
(* order); a section of a substituted recipe is kept as a value of its own. *)
(* A text is a sequence of lines: a comment, a blank line, a top-level      *)
(* "key: value" entry with its whole block, or a top-level "- value" item.  *)

Null == [t |-> "null"]
Str(x) == [t |-> "str", s |-> x]
List(items) == [t |-> "seq", items |-> items]
Map(keys, vals) == [t |-> "map", keys |-> keys, vals |-> vals]
YamlError == [t |-> "error"]

Comment(text) == [kind |-> "comment", text |-> text]
Blank == [kind |-> "blank"]
Pair(k, v) == [kind |-> "pair", key |-> k, val |-> v]
Item(v) == [kind |-> "item", val |-> v]

Range(q) == {q[i] : i \in 1..Len(q)}
IndexOf(q, x) == CHOOSE i \in 1..Len(q) : q[i] = x

\* dict[key] = value: a new key goes last, a known key keeps its place
MapSet(m, k, v) ==
    IF k \in Range(m.keys)
    THEN Map(m.keys, [m.vals EXCEPT ![IndexOf(m.keys, k)] = v])
    ELSE Map(Append(m.keys, k), Append(m.vals, v))

RECURSIVE MapOfPairs(_)
MapOfPairs(lines) ==
    IF lines = <<>> THEN Map(<<>>, <<>>)
    ELSE LET n == Len(lines)
         IN  MapSet(MapOfPairs(SubSeq(lines, 1, n - 1)), lines[n].key, lines[n].val)

IsPairLine(l) == l.kind = "pair"
IsItemLine(l) == l.kind = "item"
IsContentLine(l) == l.kind \in {"pair", "item"}

\* yaml.safe_load: no content gives None (Null), entries a dict, items a list
yaml_safe_load(text) ==
    LET body == SelectSeq(text, IsContentLine) IN
    IF body = <<>> THEN Null
    ELSE IF \A i \in 1..Len(body) : IsPairLine(body[i]) THEN MapOfPairs(body)
    ELSE IF \A i \in 1..Len(body) : IsItemLine(body[i])
         THEN List([i \in 1..Len(body) |-> body[i].val])
    ELSE YamlError

\* yaml.dump(dict, sort_keys=False): one entry per key, in insertion order
yaml_dump(m) == [i \in 1..Len(m.keys) |-> Pair(m.keys[i], m.vals[i])]

\* Python truth value of a loaded YAML value
Truth(v) ==
    CASE v.t = "null" -> FALSE
      [] v.t = "str" -> v.s # ""
      [] v.t = "seq" -> v.items # <<>>
      [] v.t = "map" -> v.keys # <<>>
      [] OTHER -> TRUE

\* dict.get(key): the value, or None (Null) when the key is absent
MapGet(m, k) == IF k \in Range(m.keys) THEN m.vals[IndexOf(m.keys, k)] ELSE Null

----------------------------------------------------------------------------
(* The git executable, as subprocess.check_output sees it *)

OriginUrl == "git@host:repo.git"
BranchName == "dev"
Whitespace == {"\n", " "}

GitStates == {"unavailable", "not_a_repo", "no_remote", "empty_url",
              "remote_unborn", "remote_branch"}
Envs == {[platform |-> "posix", git |-> g] : g \in GitStates}
            \cup {[platform |-> "win32", git |-> g] : g \in {"unavailable", "remote_branch"}}

Ok(out) == [status |-> "ok", out |-> out]
Failed(exc) == [status |-> exc, out |-> <<>>]

\* subprocess.check_output(["git", ...], shell=shell): the output, or the
\* exception raised: a missing executable is FileNotFoundError unless a shell
\* runs the command, a non-zero exit status is CalledProcessError
check_output(e, cmd, shell) ==
    IF e.git = "unavailable"
    THEN IF shell THEN Failed("CalledProcessError") ELSE Failed("FileNotFoundError")
    ELSE IF cmd = "config"
    THEN CASE e.git \in {"not_a_repo", "no_remote"} -> Failed("CalledProcessError")
           [] e.git = "empty_url" -> Ok(<<"\n">>)
           [] OTHER -> Ok(<<OriginUrl, "\n">>)
    ELSE CASE e.git \in {"not_a_repo", "remote_unborn"} -> Failed("CalledProcessError")
           [] OTHER -> Ok(<<BranchName, "\n">>)

IsNotWhitespace(c) == c \notin Whitespace

\* bytes.decode().strip()
strip(out) ==
    LET core == SelectSeq(out, IsNotWhitespace)
    IN  IF core = <<>> THEN "" ELSE core[1]

\* try / except subprocess.CalledProcessError: return None
GitValue(r) ==
    IF r.status = "ok" THEN [raised |-> "none", value |-> strip(r.out)]
    ELSE IF r.status = "CalledProcessError" THEN [raised |-> "none", value |-> NoStr]
    ELSE [raised |-> r.status, value |-> NoStr]

_get_git_remote_origin_url(e) == GitValue(check_output(e, "config", e.platform = "win32"))

_get_git_branch(e) == GitValue(check_output(e, "rev-parse", FALSE))

\* truth value of an Optional[str]
Truthy(x) == x # NoStr /\ x # ""

----------------------------------------------------------------------------
(* Recipes and the files initialize_project writes *)

PrefectVersion == "2.x"
RecipeNames == {"local", "git", "docker", "docker-git"}

\* "docker" in recipe, over the recipe names callers pass
ContainsDocker(recipe) == recipe \in {"docker", "docker-git"}

\* dict.update: the entries of `more` win
update(d, more) == more @@ d

\* one section of a recipe after apply_values(template, values)
Section(config, name) ==
    [t |-> "section", of |-> name, recipe |-> config.recipe, values |-> config.values]

\* configure_project_by_recipe: ValueError unless the recipe exists
configure_project_by_recipe(recipe, formatting_kwargs) ==
    IF recipe \notin RecipeNames
    THEN [raised |-> "ValueError", config |-> None]
    ELSE [raised |-> "none", config |-> [recipe |-> recipe, values |-> formatting_kwargs]]

DefaultTemplate == [recipe |-> "template", values |-> <<>>]
DefaultIgnore == <<Comment("prefect artifacts"), Pair(".prefectignore", Null)>>

\* prefect.utilities.filesystem.create_default_ignore_file(path)
create_default_ignore_file(pr) ==
    IF pr.ignore.exists
    THEN [created |-> FALSE, proj |-> pr]
    ELSE [created |-> TRUE, proj |-> [pr EXCEPT !.ignore = File(DefaultIgnore)]]

\* the text written by create_default_prefect_yaml, in the order of its writes
PrefectYamlText(name, contents) ==
    <<Comment("File for configuring project / deployment build, push and pull steps"),
      Blank,
      Comment("Generic metadata about this project")>>
    \o yaml_dump(Map(<<"name">>, <<Str(name)>>))
    \o yaml_dump(Map(<<"prefect-version">>, <<Str(PrefectVersion)>>))
    \o <<Blank, Comment("build section")>>
    \o yaml_dump(Map(<<"build">>, <<Section(contents, "build")>>))
    \o <<Blank, Comment("push section")>>
    \o yaml_dump(Map(<<"push">>, <<Section(contents, "push")>>))
    \o <<Blank, Comment("pull section")>>
    \o yaml_dump(Map(<<"pull">>, <<Section(contents, "pull")>>))
    \o <<Blank, Comment("deployments section")>>
    \o yaml_dump(Map(<<"deployments">>, <<List(<<>>)>>))

\* a create_default_prefect_yaml that writes the file even when it exists
create_default_prefect_yaml_overwrite(pr, name, contents) ==
    [created |-> TRUE,
     proj |-> [pr EXCEPT !.prefect_yaml =
                  File(PrefectYamlText(name, IF contents = None THEN DefaultTemplate ELSE contents))]]

create_default_prefect_yaml(pr, name, contents) ==
    IF pr.prefect_yaml.exists
    THEN [created |-> FALSE, proj |-> pr]
    ELSE [created |-> TRUE,
          proj |-> [pr EXCEPT !.prefect_yaml =
                       File(PrefectYamlText(name, IF contents = None THEN DefaultTemplate
                                                  ELSE contents))]]

----------------------------------------------------------------------------
(* initialize_project *)

\* a recipe inference that forgets the Dockerfile inside a git repository
select_recipe_ignoring_dockerfile(is_git_based, has_dockerfile, recipe) ==
    IF is_git_based /\ recipe = NoStr THEN "git"
    ELSE IF recipe = NoStr /\ has_dockerfile THEN "docker"
    ELSE IF recipe = NoStr THEN "local"
    ELSE recipe

\* "hand craft a pull step": the recipe passed on to configure_project_by_recipe
select_recipe(is_git_based, has_dockerfile, recipe) ==
    IF is_git_based /\ recipe = NoStr
    THEN IF has_dockerfile THEN "docker-git" ELSE "git"
    ELSE IF recipe = NoStr /\ has_dockerfile THEN "docker"
    ELSE IF recipe = NoStr THEN "local"
    ELSE recipe

\* the call as a whole: exception raised (or "none"), list returned, recipe
\* handed to the loader (NoStr when the loader was not reached), files after
initialize_project(f, c, e, pr, name, recipe, inputs) ==
    LET remote == _get_git_remote_origin_url(e)
        is_git_based == remote.raised = "none" /\ Truthy(remote.value)
        branch == IF is_git_based THEN _get_git_branch(e)
                  ELSE [raised |-> "none", value |-> NoStr]
        git_raised == IF remote.raised # "none" THEN remote.raised ELSE branch.raised
        dir_name == basename(c)
        kw_dir == "directory" :> c
        kw_git == IF is_git_based
                  THEN update(kw_dir, ("repository" :> remote.value)
                                  @@ ("branch" :> IF Truthy(branch.value) THEN branch.value
                                                  ELSE "main"))
                  ELSE kw_dir
        kw_name == update(kw_git, "name" :> dir_name)
        has_dockerfile == pr.dockerfile
        kw_docker == IF has_dockerfile THEN update(kw_name, "dockerfile" :> "Dockerfile")
                     ELSE IF recipe # NoStr /\ ContainsDocker(recipe)
                          THEN update(kw_name, "dockerfile" :> "auto")
                     ELSE kw_name
        chosen == select_recipe(is_git_based, has_dockerfile, recipe)
        formatting_kwargs == update(kw_docker, IF inputs = None THEN <<>> ELSE inputs)
        configuration == configure_project_by_recipe(chosen, formatting_kwargs)
        project_name == IF Truthy(name) THEN name ELSE dir_name
        ign == create_default_ignore_file(pr)
        yml == create_default_prefect_yaml(ign.proj, project_name, configuration.config)
        hid == set_prefect_hidden_dir(f, c, None)
        files == (IF ign.created THEN <<".prefectignore">> ELSE <<>>)
                 \o (IF yml.created THEN <<"prefect.yaml">> ELSE <<>>)
                 \o (IF hid.created THEN <<".prefect/">> ELSE <<>>)
    IN  IF git_raised # "none"
        THEN [raised |-> git_raised, files |-> <<>>, recipe |-> NoStr, fs |-> f, proj |-> pr]
        ELSE IF configuration.raised # "none"
        THEN [raised |-> configuration.raised, files |-> <<>>, recipe |-> chosen,
              fs |-> f, proj |-> pr]
        ELSE [raised |-> "none", files |-> files, recipe |-> chosen,
              fs |-> hid.fs, proj |-> yml.proj]

----------------------------------------------------------------------------
(* register_flow: strings, the loader and the registry file *)

\* An entrypoint is a sequence of chunks; ":" and "/" are chunks of their own
Colons(t) == {i \in 1..Len(t) : t[i] = ":"}
LastColon(t) == CHOOSE i \in Colons(t) : \A j \in Colons(t) : j <= i

\* str.rsplit(":", 1): one part without a colon, else the parts around the last one
rsplit(t) ==
    IF Colons(t) = {} THEN <<t>>
    ELSE <<SubSeq(t, 1, LastColon(t) - 1), SubSeq(t, LastColon(t) + 1, Len(t))>>

RECURSIVE Concat(_)
Concat(t) == IF t = <<>> THEN "" ELSE t[1] \o Concat(Tail(t))

\* the components of a path string: chunks between "/" chunks, run together
RECURSIVE Components(_)
Components(t) ==
    IF t = <<>> THEN <<"">>
    ELSE LET n == Len(t)
             init == Components(SubSeq(t, 1, n - 1))
         IN  IF t[n] = "/" THEN Append(init, "")
             ELSE [init EXCEPT ![Len(init)] = @ \o t[n]]

IsNonEmpty(x) == x # ""

\* pathlib: Path(str)
PathOf(t) == [abs |-> t # <<>> /\ t[1] = "/", segs |-> SelectSeq(Components(t), IsNonEmpty)]

\* str(Path): the components joined by "/"
RECURSIVE Join(_)
Join(segs) ==
    IF segs = <<>> THEN "."
    ELSE IF Len(segs) = 1 THEN segs[1]
    ELSE segs[1] \o "/" \o Join(Tail(segs))

IsPrefix(a, b) == Len(a) <= Len(b) /\ SubSeq(b, 1, Len(a)) = a

\* Path.relative_to(other): ValueError unless `other` is an ancestor
relative_to(p, other) ==
    IF IsPrefix(other, p)
    THEN [raised |-> "none", segs |-> SubSeq(p, Len(other) + 1, Len(p))]
    ELSE [raised |-> "ValueError", segs |-> <<>>]

\* The flows the source files define, by file name and function name; the
\* same files lie in every directory
FlowDefs ==
    (<<"flows.py", "my_flow">> :> "my-flow")
        @@ (<<"flows.py", "other_flow">> :> "other-flow")
        @@ (<<"copy.py", "my_flow">> :> "my-flow")

\* prefect.flows.load_flow_from_entrypoint: the flow's name, or an error when
\* the file or the function is missing
load_flow_from_entrypoint(entrypoint) ==
    LET parts == rsplit(entrypoint)
        path == PathOf(parts[1])
        key == <<IF path.segs = <<>> THEN "" ELSE path.segs[Len(path.segs)],
                 Concat(parts[2])>>
    IN  IF key \in DOMAIN FlowDefs
        THEN [raised |-> "none", name |-> FlowDefs[key]]
        ELSE [raised |-> "LoadError", name |-> NoStr]

\* flows.json: json.dump(flows, sort_keys=True) writes the entries by key,
\* json.load gives the dict back
KeyOrder == <<"legacy-flow", "my-flow", "other-flow">>
RECURSIVE DumpFrom(_, _)
DumpFrom(d, i) ==
    IF i > Len(KeyOrder) THEN <<>>
    ELSE (IF KeyOrder[i] \in DOMAIN d THEN <<<<KeyOrder[i], d[KeyOrder[i]]>>>> ELSE <<>>)
         \o DumpFrom(d, i + 1)
json_dump(d) == DumpFrom(d, 1)
json_load(text) ==
    [k \in {text[i][1] : i \in 1..Len(text)} |->
        text[CHOOSE i \in 1..Len(text) : text[i][1] = k][2]]

\* flows_file.exists() ... json.load(f), else {}
read_registry(file) == IF file.exists THEN json_load(file.content) ELSE <<>>

\* a quality control that refuses every known name, the same entrypoint included
conflicting_on_any_entry(flows, name, entrypoint, force) ==
    name \in DOMAIN flows /\ ~force

\* "quality control": the flow name is taken by another entrypoint and force is off
conflicting(flows, name, entrypoint, force) ==
    name \in DOMAIN flows /\ flows[name] # entrypoint /\ ~force

\* a register_flow that looks for the marker directory before it loads the flow
register_flow_order_marker_first == <<"split", "resolve", "load", "read", "write">>

\* the order of the steps of register_flow
register_flow_order == <<"split", "load", "resolve", "read", "write">>

StepAfter(step) ==
    LET i == IndexOf(register_flow_order, step)
    IN  IF i = Len(register_flow_order) THEN "done" ELSE register_flow_order[i + 1]

----------------------------------------------------------------------------
(* Values the variables take while the operations they belong to are not   *)
(* part of the specification at hand.                                       *)

NoCall == [op |-> "none"]
Procs == {"p1", "p2"}
NoEnv == [platform |-> "posix", git |-> "not_a_repo"]
NoProj == [ignore |-> NoFile, prefect_yaml |-> NoFile, dockerfile |-> FALSE,
           deployment_yaml |-> NoFile]
NoRegistries == [d \in Dirs |-> NoFile]
IdleProcs == [p \in Procs |-> "idle"]
NoLocals ==
    [p \in Procs |->
        [entrypoint |-> <<>>, force |-> FALSE, fpath |-> <<>>, obj_name |-> "",
         flow |-> NoStr, loaded |-> FALSE, root |-> Root, entry |-> "", read |-> <<>>,
         raised |-> "none", wrote |-> FALSE]]

----------------------------------------------------------------------------
(* Specification SpecFind: the locator and the marker creation, called     *)
(* with explicit paths on every file system of the bounds.                  *)

\* the paths a caller passes: None, ".", a directory, or a marker directory itself
FindArgs(f) ==
    {None, Dot} \cup {AbsPath(d) : d \in Dirs}
        \cup {AbsPath(joinpath(d, PREFECT)) : d \in {e \in Dirs : f[e] = "dir"}}

InitFind ==
    /\ cwd \in Dirs
    /\ fs \in LayoutsOn(Dirs)
    /\ env = NoEnv /\ proj = NoProj /\ flows_json = NoRegistries
    /\ last = NoCall /\ succeeded = {} /\ ncalls = 0
    /\ pc = IdleProcs /\ loc = NoLocals

FindPrefectDirectory ==
    \E path \in FindArgs(fs) :
        /\ last' = [op |-> "find_prefect_directory", path |-> path,
                    ret |-> find_prefect_directory(fs, cwd, path)]
        /\ UNCHANGED <<fs, cwd, env, proj, flows_json, succeeded, ncalls, pc, loc>>

SetPrefectHiddenDir ==
    \E path \in {None} \cup {AbsPath(d) : d \in Dirs} :
        LET r == set_prefect_hidden_dir(fs, cwd, path) IN
        /\ fs' = r.fs
        /\ last' = [op |-> "set_prefect_hidden_dir", path |-> path, ret |-> r.created]
        /\ UNCHANGED <<cwd, env, proj, flows_json, succeeded, ncalls, pc, loc>>

NextFind == FindPrefectDirectory \/ SetPrefectHiddenDir

SpecFind == InitFind /\ [][NextFind]_vars

\* the resolved starting path of the last find_prefect_directory call
StartOf(path) == resolve(cwd, IF path = None THEN Dot ELSE path)

\* the directories on the ancestor chain of p that contain a .prefect directory
Holders(p) == {A \in Chain(p) : A \in Dirs /\ fs[A] = "dir"}
Nearest(p) == CHOOSE A \in Holders(p) : \A B \in Holders(p) : Len(B) <= Len(A)

\* C1: find_prefect_directory(P) returns the .prefect directory of the nearest
\* directory A among P and all its ancestors, the file system root included,
\* that contains one, and None when no directory of the chain contains one.
C1_NearestMarkerOnChain ==
    last.op = "find_prefect_directory" =>
        LET P == StartOf(last.path) IN
        IF Holders(P) = {} THEN last.ret = None
        ELSE last.ret = AbsPath(joinpath(Nearest(P), PREFECT))

----------------------------------------------------------------------------
(* Specification SpecInit: initialize_project called up to MaxCalls times  *)
(* in one directory, in every environment and over every prior content.     *)

\* one directory of each depth: what lies beside the ancestor chain of cwd
\* is never read by initialize_project
Spine == {d \in Dirs : \A i \in 1..Len(d) : d[i] = "a"}

OldYaml == PrefectYamlText("old", DefaultTemplate)

InitArgs ==
    {[name |-> NoStr, recipe |-> NoStr, inputs |-> None],
     [name |-> "proj", recipe |-> NoStr, inputs |-> ("branch" :> "release")],
     [name |-> NoStr, recipe |-> "docker", inputs |-> None],
     [name |-> "proj", recipe |-> "git", inputs |-> None],
     [name |-> NoStr, recipe |-> "no-such-recipe", inputs |-> None]}

InitInit ==
    /\ cwd \in Spine
    /\ fs \in LayoutsOn(Chain(cwd))
    /\ env \in Envs
    /\ proj \in {[ignore |-> i, prefect_yaml |-> y, dockerfile |-> d, deployment_yaml |-> NoFile] :
                 i \in {NoFile, File(DefaultIgnore)}, y \in {NoFile, File(OldYaml)},
                 d \in BOOLEAN}
    /\ flows_json = NoRegistries
    /\ last = NoCall /\ succeeded = {} /\ ncalls = 0
    /\ pc = IdleProcs /\ loc = NoLocals

InitializeProject ==
    \E a \in InitArgs :
        LET r == initialize_project(fs, cwd, env, proj, a.name, a.recipe, a.inputs) IN
        /\ ncalls < MaxCalls
        /\ ncalls' = ncalls + 1
        /\ fs' = r.fs
        /\ proj' = r.proj
        /\ succeeded' = IF r.raised = "none" THEN succeeded \cup {a} ELSE succeeded
        /\ last' = [op |-> "initialize_project", args |-> a, raised |-> r.raised,
                    files |-> r.files, recipe |-> r.recipe, rerun |-> a \in succeeded,
                    before |-> [fs |-> fs, proj |-> proj]]
        /\ UNCHANGED <<cwd, env, flows_json, pc, loc>>

NextInit == InitializeProject

SpecInit == InitInit /\ [][NextInit]_vars

InitCalled == last.op = "initialize_project"

\* a repository with a non-empty origin URL whose git executable can be run
GitContext == env.git \in {"remote_unborn", "remote_branch"}

InferredRecipe ==
    IF GitContext /\ proj.dockerfile THEN "docker-git"
    ELSE IF GitContext THEN "git"
    ELSE IF proj.dockerfile THEN "docker"
    ELSE "local"

\* C2: with no recipe argument the recipe handed to the loader is the one the
\* table gives for (git context, Dockerfile in cwd): both "docker-git", git
\* only "git", Dockerfile only "docker", neither "local"; a recipe argument
\* is handed to the loader as it is, whatever git and the Dockerfile say.
C2_RecipeSelection ==
    (InitCalled /\ last.recipe # NoStr) =>
        IF last.args.recipe = NoStr THEN last.recipe = InferredRecipe
        ELSE last.recipe = last.args.recipe

C2_Witness_InferredDockerGit ==
    /\ InitCalled /\ last.args.recipe = NoStr /\ last.recipe = "docker-git"
    /\ GitContext /\ proj.dockerfile

\* C3: a call of initialize_project whose arguments an earlier call in the
\* same directory returned with raises nothing, returns the empty list and
\* leaves .prefectignore, prefect.yaml and .prefect as they were.
C3_RerunCreatesNothing ==
    (InitCalled /\ last.rerun) =>
        /\ last.raised = "none"
        /\ last.files = <<>>
        /\ last.before = [fs |-> fs, proj |-> proj]

C3_Witness_RerunAfterCreation ==
    /\ InitCalled /\ last.rerun /\ last.files = <<>>
    /\ proj.prefect_yaml.exists /\ proj.prefect_yaml.content # OldYaml

\* C5: a failing git invocation - not a repository, no remote, or git not
\* executable - raises nothing out of initialize_project, which goes on
\* without git context and, given no recipe, loads "docker" or "local".
C5_GitFailureNotFatal ==
    (InitCalled /\ ~GitContext) =>
        /\ last.raised \in {"none", "ValueError"}
        /\ last.args.recipe = NoStr => last.recipe \in {"docker", "local"}

\* C10: once initialize_project has returned in directory D, whatever D held
\* before and wherever D lies, find_prefect_directory from D gives D/.prefect
\* (so register_flow run from D does not fail for want of the marker).
C10_InitEstablishesMarker ==
    (InitCalled /\ last.raised = "none") =>
        find_prefect_directory(fs, cwd, None) = AbsPath(joinpath(cwd, PREFECT))

----------------------------------------------------------------------------
(* Specifications SpecReg and SpecRegSeq: two invocations of register_flow *)
(* in one working directory, as separate processes. Under SpecReg their    *)
(* steps interleave; under SpecRegSeq one runs after the other.             *)

\* "flows.py:my_flow", the same by its absolute path, a second file with a
\* flow of the same name, a second flow, a file outside every project, a
\* function that does not exist, an entrypoint with no colon and one with two
EntryPoints(c) ==
    {<<"flows.py", ":", "my_flow">>,
     <<"/">> \o c \o <<"/", "flows.py", ":", "my_flow">>,
     <<"copy.py", ":", "my_flow">>,
     <<"flows.py", ":", "other_flow">>,
     <<"/", "flows.py", ":", "my_flow">>,
     <<"flows.py", ":", "missing">>,
     <<"flows.py">>,
     <<"pkg", ":", "flows.py", ":", "my_flow">>}

LegacyRegistry == File(json_dump("legacy-flow" :> "legacy.py:run"))

InitReg ==
    /\ cwd \in Spine
    /\ fs \in LayoutsOn(Chain(cwd))
    /\ \E r \in {NoFile, LegacyRegistry} :
          flows_json = [d \in Dirs |-> IF fs[d] = "dir" THEN r ELSE NoFile]
    /\ env = NoEnv /\ proj = NoProj
    /\ last = NoCall /\ succeeded = {} /\ ncalls = 0
    /\ pc = IdleProcs /\ loc = NoLocals

Locals(p, entrypoint, force) ==
    [NoLocals[p] EXCEPT !.entrypoint = entrypoint, !.force = force]

Raise(p, exc) ==
    /\ pc' = [pc EXCEPT ![p] = "done"]
    /\ loc' = [loc EXCEPT ![p].raised = exc]

\* register_flow(entrypoint, force) is called
RegCall(p) ==
    /\ pc[p] = "idle"
    /\ \E e \in EntryPoints(cwd), force \in BOOLEAN :
          loc' = [loc EXCEPT ![p] = Locals(p, e, force)]
    /\ pc' = [pc EXCEPT ![p] = register_flow_order[1]]
    /\ UNCHANGED <<fs, cwd, env, proj, flows_json, last, succeeded, ncalls>>

\* fpath, obj_name = entrypoint.rsplit(":", 1), or the missing flow name error
RegSplit(p) ==
    /\ pc[p] = "split"
    /\ LET parts == rsplit(loc[p].entrypoint) IN
       IF Len(parts) < 2
       THEN Raise(p, "ValueError: missing flow name")
       ELSE /\ loc' = [loc EXCEPT ![p].fpath = parts[1], ![p].obj_name = Concat(parts[2])]
            /\ pc' = [pc EXCEPT ![p] = StepAfter("split")]
    /\ UNCHANGED <<fs, cwd, env, proj, flows_json, last, succeeded, ncalls>>

\* flow = await run_sync_in_worker_thread(load_flow_from_entrypoint, entrypoint)
RegLoad(p) ==
    /\ pc[p] = "load"
    /\ LET r == load_flow_from_entrypoint(loc[p].entrypoint) IN
       IF r.raised # "none"
       THEN /\ pc' = [pc EXCEPT ![p] = "done"]
            /\ loc' = [loc EXCEPT ![p].raised = r.raised, ![p].loaded = TRUE]
       ELSE /\ loc' = [loc EXCEPT ![p].flow = r.name, ![p].loaded = TRUE]
            /\ pc' = [pc EXCEPT ![p] = StepAfter("load")]
    /\ UNCHANGED <<fs, cwd, env, proj, flows_json, last, succeeded, ncalls>>

\* the path made absolute, the marker directory found, the entrypoint made
\* relative to the project root
RegResolve(p) ==
    /\ pc[p] = "resolve"
    /\ LET fpath == resolve(cwd, PathOf(loc[p].fpath))
           prefect_dir == find_prefect_directory(fs, cwd, None)
       IN  IF prefect_dir = None
           THEN Raise(p, "FileNotFoundError")
           ELSE LET rel == relative_to(fpath, Parent(prefect_dir.segs)) IN
                IF rel.raised # "none"
                THEN Raise(p, "ValueError: relative_to")
                ELSE /\ loc' = [loc EXCEPT ![p].root = Parent(prefect_dir.segs),
                                           ![p].entry = Join(rel.segs) \o ":" \o loc[p].obj_name]
                     /\ pc' = [pc EXCEPT ![p] = StepAfter("resolve")]
    /\ UNCHANGED <<fs, cwd, env, proj, flows_json, last, succeeded, ncalls>>

\* flows = json.load(f) if flows_file.exists() else {}
RegRead(p) ==
    /\ pc[p] = "read"
    /\ loc' = [loc EXCEPT ![p].read = read_registry(flows_json[loc[p].root])]
    /\ pc' = [pc EXCEPT ![p] = StepAfter("read")]
    /\ UNCHANGED <<fs, cwd, env, proj, flows_json, last, succeeded, ncalls>>

\* a write that takes the registry as it is on disk at the time of the write
RegWriteOntoCurrentFile(p) ==
    /\ pc[p] = "write"
    /\ LET now == read_registry(flows_json[loc[p].root]) IN
       IF conflicting(now, loc[p].flow, loc[p].entry, loc[p].force)
       THEN /\ Raise(p, "ValueError: conflicting entry")
            /\ UNCHANGED flows_json
       ELSE /\ flows_json' = [flows_json EXCEPT ![loc[p].root] =
                                 File(json_dump((loc[p].flow :> loc[p].entry) @@ now))]
            /\ loc' = [loc EXCEPT ![p].wrote = TRUE]
            /\ pc' = [pc EXCEPT ![p] = StepAfter("write")]
    /\ UNCHANGED <<fs, cwd, env, proj, last, succeeded, ncalls>>

\* quality control, flows[flow.name] = entrypoint, json.dump over the old file
RegWrite(p) ==
    /\ pc[p] = "write"
    /\ IF conflicting(loc[p].read, loc[p].flow, loc[p].entry, loc[p].force)
       THEN /\ Raise(p, "ValueError: conflicting entry")
            /\ UNCHANGED flows_json
       ELSE /\ flows_json' = [flows_json EXCEPT ![loc[p].root] =
                                 File(json_dump((loc[p].flow :> loc[p].entry) @@ loc[p].read))]
            /\ loc' = [loc EXCEPT ![p].wrote = TRUE]
            /\ pc' = [pc EXCEPT ![p] = StepAfter("write")]
    /\ UNCHANGED <<fs, cwd, env, proj, last, succeeded, ncalls>>

RegStep(p) ==
    \/ RegCall(p)
    \/ RegSplit(p)
    \/ RegLoad(p)
    \/ RegResolve(p)
    \/ RegRead(p)
    \/ RegWrite(p)

NextReg == \E p \in Procs : RegStep(p)

SpecReg == InitReg /\ [][NextReg]_vars

\* one invocation at a time
NextRegSeq ==
    \E p \in Procs :
        /\ \A q \in Procs \ {p} : pc[q] \in {"idle", "done"}
        /\ RegStep(p)

SpecRegSeq == InitReg /\ [][NextRegSeq]_vars

Registered(d) == read_registry(flows_json[d])

\* C4: when register_flow reaches its quality control, it fails with the
\* conflict error and leaves the registry file as it is if the flow's name
\* is registered under another entrypoint and force is off; in every other
\* case it returns, the registry maps the name to the new entrypoint, and
\* every other entry is as before.
C4_ConflictRule ==
    [][\A p \in Procs :
          (pc[p] = "write" /\ pc'[p] = "done") =>
              LET root == loc[p].root
                  name == loc[p].flow
                  before == Registered(root)
                  after == read_registry(flows_json'[root])
              IN  IF name \in DOMAIN before /\ before[name] # loc[p].entry /\ ~loc[p].force
                  THEN /\ loc'[p].raised = "ValueError: conflicting entry"
                       /\ flows_json' = flows_json
                  ELSE /\ loc'[p].raised = "none"
                       /\ flows_json'[root].exists
                       /\ DOMAIN after = DOMAIN before \cup {name}
                       /\ after[name] = loc[p].entry
                       /\ \A k \in DOMAIN before \ {name} : after[k] = before[k]
                       /\ \A d \in Dirs \ {root} : flows_json'[d] = flows_json[d]]_vars

C4_Witness_ConflictRefused ==
    \E p \in Procs :
        /\ pc[p] = "done" /\ loc[p].raised = "ValueError: conflicting entry"
        /\ Registered(loc[p].root)[loc[p].flow] # loc[p].entry

NoMarker == find_prefect_directory(fs, cwd, None) = None
HasColon(p) == Colons(loc[p].entrypoint) # {}
UntouchedRegistries ==
    \E r \in {NoFile, LegacyRegistry} :
        flows_json = [d \in Dirs |-> IF fs[d] = "dir" THEN r ELSE NoFile]

\* C8 as stated: the marker directory is looked for before the entrypoint is
\* loaded, so a call with a colon in its entrypoint made where no .prefect
\* directory can be found fails with the marker-not-found error without
\* having loaded the entrypoint.
C8_MarkerCheckedBeforeLoad ==
    \A p \in Procs :
        (pc[p] = "done" /\ NoMarker /\ HasColon(p)) =>
            loc[p].raised = "FileNotFoundError" /\ ~loc[p].loaded

\* C8 as amended: register_flow splits, then loads the entrypoint, and only
\* then looks for the marker directory. A call made where no .prefect
\* directory can be found writes no registry file; if its entrypoint has a
\* colon the entrypoint is loaded, and if the load succeeds the call fails
\* with the marker-not-found error.
C8_LoadBeforeMarkerCheck ==
    \A p \in Procs :
        /\ loc[p].raised = "FileNotFoundError" => loc[p].loaded
        /\ (pc[p] = "done" /\ NoMarker) =>
              /\ ~loc[p].wrote /\ UntouchedRegistries
              /\ HasColon(p) <=> loc[p].loaded
              /\ loc[p].flow # NoStr => loc[p].raised = "FileNotFoundError"
              /\ loc[p].raised \in {"ValueError: missing flow name", "LoadError",
                                    "FileNotFoundError"}

C8_Witness_LoadedThenNoMarker ==
    \E p \in Procs :
        pc[p] = "done" /\ NoMarker /\ loc[p].loaded /\ loc[p].raised = "FileNotFoundError"

BothReturned == \A p \in Procs : pc[p] = "done" /\ loc[p].raised = "none" /\ loc[p].wrote

\* C9: nothing coordinates two writers of flows.json: when both invocations
\* have returned, the file is what one of them read, earlier, plus its own
\* entry - so an entry the other wrote in between is lost.
C9_LastWriterWins ==
    BothReturned =>
        \E p \in Procs :
            flows_json[loc[p].root] =
                File(json_dump((loc[p].flow :> loc[p].entry) @@ loc[p].read))

C9_Witness_LostUpdate ==
    /\ BothReturned
    /\ loc["p1"].flow # loc["p2"].flow
    /\ loc["p1"].root = loc["p2"].root
    /\ \E p \in Procs : loc[p].flow \notin DOMAIN Registered(loc[p].root)

----------------------------------------------------------------------------
(* _copy_deployments_into_prefect_file, and specification SpecMig: it is   *)
(* called on every deployment.yaml of at most MaxLines lines.               *)

_copy_deployments_into_prefect_file(pr) ==
    IF ~pr.deployment_yaml.exists \/ ~pr.prefect_yaml.exists
    THEN [raised |-> "FileNotFoundError", proj |-> pr]
    ELSE
    LET raw == pr.deployment_yaml.content
        parsed == yaml_safe_load(raw)
        append(text) == [pr EXCEPT !.prefect_yaml = File(@.content \o <<Blank>> \o text)]
    IN  IF parsed = YamlError THEN [raised |-> "YAMLError", proj |-> pr]
        \* parsed_deployment_file_contents.get("deployments")
        ELSE IF parsed.t # "map" THEN [raised |-> "AttributeError", proj |-> pr]
        ELSE IF ~Truth(parsed)
        THEN [raised |-> "none",
              proj |-> append(yaml_dump(Map(<<"deployments">>, <<List(<<>>)>>)))]
        ELSE IF ~Truth(MapGet(parsed, "deployments"))
        THEN [raised |-> "none",
              proj |-> append(yaml_dump(Map(<<"deployments">>, <<List(<<parsed>>)>>)))]
        ELSE [raised |-> "none", proj |-> append(raw)]

OneDeployment == Map(<<"name">>, <<Str("d1")>>)
LineChoices ==
    {Comment("legacy deployment"),
     Pair("name", Str("d1")),
     Pair("deployments", List(<<>>)),
     Pair("deployments", Null),
     Pair("deployments", List(<<OneDeployment>>)),
     Item(Str("d1"))}
Texts == UNION {[1..n -> LineChoices] : n \in 0..MaxLines}

InitMig ==
    /\ cwd = Root
    /\ fs = [d \in Dirs |-> "absent"]
    /\ env = NoEnv
    /\ proj \in {[ignore |-> NoFile, prefect_yaml |-> y, dockerfile |-> FALSE,
                  deployment_yaml |-> d] :
                 y \in {NoFile, File(OldYaml)}, d \in {NoFile} \cup {File(t) : t \in Texts}}
    /\ flows_json = NoRegistries
    /\ last = NoCall /\ succeeded = {} /\ ncalls = 0
    /\ pc = IdleProcs /\ loc = NoLocals

CopyDeployments ==
    LET r == _copy_deployments_into_prefect_file(proj) IN
    /\ ncalls < MaxCalls
    /\ ncalls' = ncalls + 1
    /\ proj' = r.proj
    /\ last' = [op |-> "_copy_deployments_into_prefect_file", raised |-> r.raised,
                before |-> proj]
    /\ UNCHANGED <<fs, cwd, env, flows_json, succeeded, pc, loc>>

NextMig == CopyDeployments

SpecMig == InitMig /\ [][NextMig]_vars

CopyCalled ==
    /\ last.op = "_copy_deployments_into_prefect_file"
    /\ last.before.prefect_yaml.exists /\ last.before.deployment_yaml.exists

AppendedTo(text) == proj.prefect_yaml = File(last.before.prefect_yaml.content \o <<Blank>> \o text)

\* C6: with both files present and a deployment.yaml without content, the
\* migration raises nothing and appends a blank line and an empty
\* deployments list to prefect.yaml, whose earlier text stays in place.
C6_EmptyLegacyAppendsEmptyList ==
    (CopyCalled /\ yaml_safe_load(last.before.deployment_yaml.content) = Null) =>
        /\ last.raised = "none"
        /\ AppendedTo(<<Pair("deployments", List(<<>>))>>)

\* C7: for a deployment.yaml holding a mapping, the raw text is appended as
\* it is when the mapping has a deployments key, whatever its value, and the
\* whole mapping is appended as the one element of a new deployments list
\* exactly when the key is absent.
C7_SplitOnDeploymentsKey ==
    LET raw == last.before.deployment_yaml.content
        parsed == yaml_safe_load(raw)
    IN  (CopyCalled /\ parsed.t = "map") =>
            /\ last.raised = "none"
            /\ IF "deployments" \in Range(parsed.keys) THEN AppendedTo(raw)
               ELSE AppendedTo(<<Pair("deployments", List(<<parsed>>))>>)

====
